---- MODULE Spec2Model ----
(***************************************************************************)
(* The route controller of bot.py: Bot.__init__ builds an ordered course   *)
(* of checkpoints, and every call of Bot.run scans the course in list      *)
(* order, computes the sail throttle, marks checkpoints reached and        *)
(* targets the first checkpoint that is still unreached.                   *)
(*                                                                         *)
(* Distances are integers (one unit of length); the vessel and the         *)
(* checkpoints lie on one great circle, so distance_on_surface is the      *)
(* absolute difference of their coordinates along it.  The sail value is   *)
(* a float in the code; here it is an exact fraction <<num, den>>, with    *)
(* <<r, 0>> (r > 0) the float inf and <<0, 0>> the float nan, which is     *)
(* what numpy's float64 division gives for a zero divisor.                 *)
(***************************************************************************)
EXTENDS Integers, Sequences

(* ---- bounds of the model ---------------------------------------------- *)
CourseLen == 3      \* number of checkpoints of the course
MaxPos    == 3      \* coordinates along the great circle are 0..MaxPos
MaxRadius == 2      \* checkpoint radii are at most MaxRadius
MaxDt     == 2      \* dt is in 0..MaxDt
MaxSpeed  == 1      \* speed is in -MaxSpeed..MaxSpeed

(* ---- program constants ------------------------------------------------ *)
FinalRadius == 0    \* radius of the last checkpoint (the start line)

VARIABLES
    course,         \* self.course: the checkpoints, in list order
    reached,        \* reached[i]: the reached flag of course[i]
    args,           \* the arguments of the last call of run (None before it)
    before,         \* the reached flags when the last call of run began
    instructions,   \* the Instructions object of the last call of run
    scanned,        \* how many checkpoints the last call's loop examined
    raised          \* whether the last call of run ended in an exception

vars == <<course, reached, args, before, instructions, scanned, raised>>

\* Python's None; a value that is present is a non-empty tuple
None == <<>>

Positions == 0..MaxPos
Indices   == 1..CourseLen

\* Checkpoint(latitude, longitude, radius): a coordinate and a radius
Checkpoint == [position : Positions, radius : 0..MaxRadius]

(* ---- float arithmetic as exact fractions ------------------------------ *)
One == <<1, 1>>

IsNan(a) == a[1] = 0 /\ a[2] = 0

\* radius / jump; jump is a numpy float64, so a zero divisor gives inf or
\* nan (with a RuntimeWarning) and raises nothing
Div(a, b) == <<a, b>>

\* whether radius / jump raises: Python's own float division raises
\* ZeroDivisionError on a zero divisor, numpy's float64 division does not
DivRaisesPython(a, b) == b = 0
DivRaises(a, b) == FALSE

\* a < b on floats: every comparison with nan is false
Less(a, b) == ~IsNan(a) /\ ~IsNan(b) /\ a[1] * b[2] < b[1] * a[2]

\* Python's min(a, b): b when b < a, else a
PyMin(a, b) == IF Less(b, a) THEN b ELSE a

(* ---- helpers of Bot.run ----------------------------------------------- *)
distance_on_surface(p, q) == IF p >= q THEN p - q ELSE q - p

norm(speed) == IF speed < 0 THEN -speed ELSE speed

Jump(dt, speed) == dt * norm(speed)

\* line 157; the variant brakes inside radius + jump only
BrakesBug(dist, radius, jump) == dist < radius + jump
Brakes(dist, radius, jump) == dist < 2 * radius + jump

\* line 158; the variant leaves out the min
ThrottleBug(radius, jump) == Div(radius, jump)
Throttle(radius, jump) == PyMin(Div(radius, jump), One)

Sail(dist, radius, jump) ==
    IF Brakes(dist, radius, jump) THEN Throttle(radius, jump) ELSE One

\* lines 162-163; the variants mark at dist = radius, or assign the test
MarkBugLeq(was, dist, radius) == IF dist <= radius THEN TRUE ELSE was
MarkBugReset(was, dist, radius) == dist < radius
Mark(was, dist, radius) == IF dist < radius THEN TRUE ELSE was

\* lines 164-168: leave the loop at an unreached checkpoint; the variant
\* never leaves it
BreakBug(flag) == FALSE
Break(flag) == ~flag

\* Location(longitude=ch.longitude, latitude=ch.latitude)
Location(ch) == <<ch.position>>

\* the loop of Bot.run from checkpoint i on; rch are the reached flags and
\* ins the Instructions built so far
RECURSIVE Scan(_, _, _, _, _)
Scan(i, rch, ins, position, jump) ==
    LET ch   == course[i]
        dist == distance_on_surface(position, ch.position)
        s    == Sail(dist, ch.radius, jump)
        r    == [rch EXCEPT ![i] = Mark(rch[i], dist, ch.radius)]
        stop == Break(r[i])
        out  == [location |-> IF ~r[i] THEN Location(ch) ELSE ins.location,
                 sail     |-> s]
    IN  IF Brakes(dist, ch.radius, jump) /\ DivRaises(ch.radius, jump)
        THEN [reached |-> rch, instructions |-> ins, scanned |-> i,
              raised |-> TRUE]
        ELSE IF stop \/ i = Len(course)
        THEN [reached |-> r, instructions |-> out, scanned |-> i,
              raised |-> FALSE]
        ELSE Scan(i + 1, r, out, position, jump)

Instructions == [location |-> None, sail |-> None]

(* ---- the state machine ------------------------------------------------ *)
\* every course of CourseLen checkpoints
AnyCourses == [Indices -> Checkpoint]

\* courses whose start line has a positive radius as well
CoursesBug == { c \in AnyCourses : \A i \in Indices : c[i].radius > 0 }

\* the courses Bot.__init__ can stand for: positive radii, then the start
\* line with radius FinalRadius
Courses ==
    { c \in AnyCourses :
        /\ \A i \in 1..(CourseLen - 1) : c[i].radius > 0
        /\ c[CourseLen].radius = FinalRadius }

Start(c) ==
    /\ course = c
    /\ reached = [i \in Indices |-> FALSE]
    /\ args = None
    /\ before = reached
    /\ instructions = Instructions
    /\ scanned = 0
    /\ raised = FALSE

Init == \E c \in Courses : Start(c)

\* the same controller over a course of arbitrary radii
InitAnyCourse == \E c \in AnyCourses : Start(c)

run(dt, position, speed) ==
    \E out \in {Scan(1, reached, Instructions, position, Jump(dt, speed))} :
        /\ reached' = out.reached
        /\ instructions' = out.instructions
        /\ scanned' = out.scanned
        /\ raised' = out.raised
        /\ args' = <<[dt |-> dt, position |-> position, speed |-> speed]>>
        /\ before' = reached
        /\ UNCHANGED course

Next ==
    \E dt \in 0..MaxDt, position \in Positions, speed \in -MaxSpeed..MaxSpeed :
        run(dt, position, speed)

Spec == Init /\ [][Next]_vars

SpecAnyCourse == InitAnyCourse /\ [][Next]_vars

(* ---- what the claims speak about -------------------------------------- *)
Called == args # None

\* jump and the distances of the last call
jumpOf == Jump(args[1].dt, args[1].speed)
distTo(i) == distance_on_surface(args[1].position, course[i].position)
radiusOf(i) == course[i].radius

Unreached == { i \in Indices : ~reached[i] }
First(S) == CHOOSE i \in S : \A j \in S : i <= j
EarlierReached(i) == \A j \in 1..(i - 1) : reached[j]

Zero == <<0, 1>>
\* a = b on floats
Same(a, b) == ~IsNan(a) /\ ~IsNan(b) /\ ~Less(a, b) /\ ~Less(b, a)
InUnit(s) == s # None /\ ~IsNan(s) /\ ~Less(s, Zero) /\ ~Less(One, s)

\* T(c) as the claims define it: min(radius/jump, 1) inside the braking
\* zone (1 when radius >= jump, which covers radius/0 = inf), else 1
T(c) ==
    IF distTo(c) < 2 * radiusOf(c) + jumpOf
    THEN IF radiusOf(c) < jumpOf THEN <<radiusOf(c), jumpOf>> ELSE One
    ELSE One

(* C1: after every call of run that returns, the Instructions have a       *)
(* location iff some checkpoint is still unreached, and the location is    *)
(* then the coordinates of the earliest unreached checkpoint.              *)
C1_TargetIsEarliestUnreached ==
    (Called /\ ~raised) =>
        /\ (instructions.location # None) <=> (Unreached # {})
        /\ Unreached # {} =>
               instructions.location = Location(course[First(Unreached)])

\* the target is checkpoint 2 while the vessel is inside the radius of the
\* later checkpoint 3, which lies elsewhere
C1_Witness ==
    /\ Called /\ reached[1] /\ ~reached[2]
    /\ instructions.location = Location(course[2])
    /\ distTo(3) < radiusOf(3)
    /\ Location(course[3]) # Location(course[2])

(* C2: a reached flag that is true stays true across every call of run.    *)
C2_ReachedIsPermanent ==
    [][\A i \in Indices : reached[i] => reached'[i]]_vars

\* checkpoint 1 was reached before the call, the vessel is now farther
\* than its radius away, and the flag is still set
C2_Witness ==
    /\ Called /\ before[1] /\ reached[1]
    /\ distTo(1) > radiusOf(1)

(* C3: the reached checkpoints form a prefix of the course.                *)
C3_ReachedIsPrefix ==
    \A i \in Indices : reached[i] => EarlierReached(i)

\* the vessel is inside the radius of checkpoint 2 while checkpoint 1 is
\* unreached, and checkpoint 2 is not marked
C3_Witness ==
    /\ Called /\ ~reached[1] /\ ~reached[2]
    /\ distTo(2) < radiusOf(2)

(* C4: the sail of every returned Instructions is in [0, 1].               *)
C4_SailInUnitInterval ==
    (Called /\ ~raised) => InUnit(instructions.sail)

\* the braking branch ran on a checkpoint of radius 0 and gave sail 0
C4_Witness ==
    /\ Called /\ ~raised
    /\ radiusOf(scanned) = 0
    /\ distTo(scanned) < jumpOf
    /\ Same(instructions.sail, Zero)

(* C5, as claimed: with the vessel on the final checkpoint and every       *)
(* earlier checkpoint reached, the final checkpoint is marked reached and  *)
(* the Instructions have no location (stated for the ticks with jump > 0,  *)
(* where the throttle division is an ordinary one).                        *)
C5_Original ==
    (/\ Called /\ ~raised /\ jumpOf > 0
     /\ EarlierReached(CourseLen) /\ distTo(CourseLen) = 0) =>
        /\ reached[CourseLen]
        /\ instructions.location = None

(* C5, amended: in that tick the final checkpoint is marked reached iff    *)
(* its radius is positive; once it is reached, that tick and every later   *)
(* one return no location; with radius 0 it stays unreached and remains    *)
(* the target.                                                             *)
C5_FinalReachedIffPositiveRadius ==
    (Called /\ ~raised) =>
        /\ (EarlierReached(CourseLen) /\ distTo(CourseLen) = 0) =>
               /\ reached[CourseLen] <=> radiusOf(CourseLen) > 0
               /\ ~reached[CourseLen] =>
                      instructions.location = Location(course[CourseLen])
        /\ (EarlierReached(CourseLen) /\ reached[CourseLen]) =>
               instructions.location = None

\* the tick that marks a final checkpoint of positive radius, the vessel
\* being exactly on it
C5_Witness ==
    /\ Called /\ ~raised
    /\ distTo(CourseLen) = 0
    /\ ~before[CourseLen] /\ reached[CourseLen]
    /\ instructions.location = None

(* C6: the returned sail is T(c) of the last checkpoint c the scan         *)
(* examined, c being the earliest checkpoint unreached after the tick, or  *)
(* the last of the list when all are reached; sail < 1 only when           *)
(* radius < jump.                                                          *)
C6_SailOfLastExamined ==
    (Called /\ ~raised) =>
        LET c == IF Unreached # {} THEN First(Unreached) ELSE CourseLen
        IN  /\ scanned = c
            /\ instructions.sail # None
            /\ Same(instructions.sail, T(c))
            /\ Less(instructions.sail, One) => radiusOf(c) < jumpOf

\* checkpoint 1, already reached, was scanned with throttle 1 before the
\* target, whose throttle below 1 is the one returned
C6_Witness ==
    /\ Called /\ ~raised /\ scanned = 2 /\ before[1]
    /\ Same(T(1), One)
    /\ Less(T(2), One)
    /\ Same(instructions.sail, T(2))

(* C7, as claimed: a tick fails exactly when jump = 0 and the scan         *)
(* examines a checkpoint with dist < 2*radius + jump.                      *)
C7_Original ==
    Called =>
        (raised <=>
            /\ jumpOf = 0
            /\ \E i \in 1..scanned : distTo(i) < 2 * radiusOf(i) + jumpOf)

(* C7, amended: no tick fails; radius/jump with jump = 0 is inf, so a      *)
(* tick with jump = 0 returns Instructions with sail 1.                    *)
C7_NoTickFails ==
    Called =>
        /\ ~raised
        /\ instructions.sail # None
        /\ jumpOf = 0 => Same(instructions.sail, One)

\* a tick with jump = 0 whose last examined checkpoint is in the braking
\* zone returned Instructions
C7_Witness ==
    /\ Called /\ jumpOf = 0
    /\ distTo(scanned) < 2 * radiusOf(scanned) + jumpOf
    /\ ~raised /\ instructions.sail # None

(* C8: a flag flips in a tick iff every earlier checkpoint is reached      *)
(* after the tick and dist < radius holds strictly.                        *)
C8_MarkedIffExaminedAndInside ==
    (Called /\ ~raised) =>
        \A i \in Indices :
            (~before[i] /\ reached[i]) <=>
                (~before[i] /\ EarlierReached(i) /\ distTo(i) < radiusOf(i))

\* one tick marks checkpoints 1 and 2 and leaves checkpoint 3, at exactly
\* its radius, unmarked
C8_Witness ==
    /\ Called
    /\ ~before[1] /\ reached[1] /\ ~before[2] /\ reached[2]
    /\ distTo(3) = radiusOf(3) /\ ~reached[3]

(* C9: with the course as constructed the final checkpoint is never        *)
(* reached and every returned Instructions carry a location.               *)
C9_FinalNeverReached ==
    /\ ~reached[CourseLen]
    /\ (Called /\ ~raised) => instructions.location # None

\* the vessel is exactly on the final checkpoint, every earlier one is
\* reached, and the final checkpoint is still the target
C9_Witness ==
    /\ Called /\ EarlierReached(CourseLen)
    /\ distTo(CourseLen) = 0
    /\ instructions.location = Location(course[CourseLen])

(* C10, as claimed: a tick that fails, and more generally a tick with      *)
(* jump = 0, leaves every reached flag as it was.                          *)
C10_Original ==
    (Called /\ (raised \/ jumpOf = 0)) => reached = before

(* C10, amended: a tick with jump = 0 does not fail and marks exactly the  *)
(* checkpoints the scan examined with dist < radius.                       *)
C10_ZeroJumpStillMarks ==
    (Called /\ jumpOf = 0) =>
        /\ ~raised
        /\ \A i \in Indices :
               (reached[i] # before[i]) <=>
                   /\ ~before[i] /\ i <= scanned
                   /\ distTo(i) < radiusOf(i)

\* a tick with jump = 0 that marked a checkpoint
C10_Witness ==
    /\ Called /\ jumpOf = 0 /\ ~raised
    /\ reached # before
====
